---- MODULE Spec2Model ----
(***************************************************************************)
(* The four example scripts of azure-postgres-pgvector-python as one state *)
(* machine: psycopg_items, sqlalchemy_items, sqlalchemy_movies and         *)
(* sqlalchemy_async.  A run is one execution of one script against a       *)
(* database that persists from run to run.  The database is modelled by    *)
(* what the statements the scripts send do to it: the vector extension,    *)
(* the items table, its rows and its indexes, with PostgreSQL's            *)
(* transactional DDL.  Distances are kept squared (the square root is      *)
(* monotone, so minima and orderings are the same).                        *)
(***************************************************************************)
EXTENDS Integers, Sequences, FiniteSets, TLC

\* ------------------------------------------------------------------ bounds
MaxCatalog == 2

\* ------------------------------------------------------- strings as tokens
\* A hostname is the sequence of its labels and dots, so that a suffix test
\* is a test on the characters and not on a flag.
AzureSuffix == <<".", "database", ".", "azure", ".", "com">>

EndsWith(s, suf) ==
    /\ Len(s) >= Len(suf)
    /\ SubSeq(s, Len(s) - Len(suf) + 1, Len(s)) = suf

Hosts ==
    { <<"localhost">>,
      <<"srv", ".", "database", ".", "azure", ".", "com">>,
      <<"database", ".", "azure", ".", "com">>,
      <<"srv", ".", "database", ".", "azure", ".", "com", ".", "evil">> }

SettingNames ==
    {"POSTGRES_HOST", "POSTGRES_USERNAME", "POSTGRES_DATABASE",
     "POSTGRES_PASSWORD", "POSTGRES_SSL"}

StaticPasswords == { <<"static-password">> }
TokenValue == <<"aad-token">>
NoValue == <<>>

\* The environment after load_dotenv: which settings are present, the host
\* name and the value of POSTGRES_SSL (the empty string when set but empty).
Envs ==
    { e \in [present : SUBSET SettingNames, host : Hosts \cup {NoValue},
             password : StaticPasswords \cup {NoValue},
             ssl : {NoValue, <<"require">>}] :
        /\ ("POSTGRES_HOST" \in e.present) <=> (e.host # NoValue)
        /\ ("POSTGRES_PASSWORD" \in e.present) <=> (e.password # NoValue)
        /\ ("POSTGRES_SSL" \notin e.present) => (e.ssl = NoValue) }

NoEnv == [present |-> {}, host |-> NoValue, password |-> NoValue, ssl |-> NoValue]

Scripts ==
    {"psycopg_items", "sqlalchemy_items", "sqlalchemy_movies", "sqlalchemy_async"}

ToyScripts == {"psycopg_items", "sqlalchemy_items"}
CatalogScripts == {"sqlalchemy_movies", "sqlalchemy_async"}

\* ---------------------------------------------------------------- the data
TargetName == "LumenHead Headlamp"
NoName == "-"

\* The three vectors of the toy scripts and the query vector.
Embeddings == << <<1, 2, 3>>, <<-1, 1, 3>>, <<0, -1, -2>> >>
EmbeddingPredicate == <<3, 1, 2>>

\* An entry of catalog.json.  complete = FALSE is an entry that lacks one of
\* the fields the scripts subscript.
CatalogEntries ==
    { [Id |-> 1, Name |-> TargetName, Embedding |-> <<1, 0, 0>>, complete |-> TRUE],
      [Id |-> 2, Name |-> "Trail Shoes", Embedding |-> <<0, 1, 0>>, complete |-> TRUE],
      [Id |-> 2, Name |-> TargetName, Embedding |-> <<0, 0, 1>>, complete |-> TRUE],
      [Id |-> 3, Name |-> "Tent", Embedding |-> <<1, 1, 0>>, complete |-> FALSE] }

SeqsUpTo(S, n) == UNION { [1..k -> S] : k \in 0..n }

Catalogs == SeqsUpTo(CatalogEntries, MaxCatalog)

Row(id, name, embedding) == [id |-> id, name |-> name, embedding |-> embedding]
NoRow == Row(0, NoName, <<>>)

\* --------------------------------------------------------------- arithmetic
Sq(x) == x * x

\* Squared Euclidean distance, the <-> operator / l2_distance.
L2DistanceSq(a, b) == Sq(a[1] - b[1]) + Sq(a[2] - b[2]) + Sq(a[3] - b[3])

SetMin(S) == CHOOSE m \in S : \A x \in S : m <= x

\* ------------------------------------------------------------- the database
EuclideanIndex == "hnsw_index_for_euclidean_distance_similarity_search"
CosineIndex == "hnsw_index_for_cosine_distance_similarity_search"
AutoIndex == "items_embedding_idx"

\* The database: is the vector extension installed, which items table exists
\* ("none", or the shape of its columns: "toy" id+embedding, "catalog" the
\* seven catalog columns, "other" a foreign items table), its rows, the names
\* of the indexes on it and the next value of its id sequence.
Database(ext, table, rows, indexes, nextId) ==
    [ext |-> ext, table |-> table, rows |-> rows, indexes |-> indexes, nextId |-> nextId]

StaleToyRows == {Row(1, NoName, <<9, 9, 9>>)}
StaleCatalogRows == {Row(1, "Old Lamp", <<1, 1, 1>>)}

\* Database states a run can start from: nothing there, a foreign items
\* table, or a toy or catalog items table with or without rows and indexes.
PriorDatabases ==
    { Database(e, "none", {}, {}, 1) : e \in BOOLEAN }
    \cup { Database(FALSE, "other", StaleToyRows, {}, 2) }
    \cup { Database(TRUE, "toy", r, ix, 2) :
             r \in {{}, StaleToyRows},
             ix \in {{}, {EuclideanIndex}, {AutoIndex}} }
    \cup { Database(TRUE, "catalog", r, ix, 2) :
             r \in {{}, StaleCatalogRows},
             ix \in {{}, {CosineIndex}, {EuclideanIndex}} }

\* CREATE EXTENSION IF NOT EXISTS vector
CreateExtensionIfNotExists(d) == [d EXCEPT !.ext = TRUE]

\* A variant in which the table is not dropped.
KeepTable(d) == d

\* DROP TABLE IF EXISTS items / Base.metadata.drop_all (checkfirst): the
\* table goes with its rows, its indexes and its id sequence.
DropTableIfExists(d) ==
    [d EXCEPT !.table = "none", !.rows = {}, !.indexes = {}, !.nextId = 1]

\* CREATE TABLE items (...) raises DuplicateTable when the table exists.
CanCreateTable(d) == d.ext /\ d.table = "none"
CreateTable(d, shape) == [d EXCEPT !.table = shape, !.rows = {}, !.indexes = {}, !.nextId = 1]

\* Base.metadata.create_all (checkfirst): creates the table only when no
\* table of that name exists, and raises nothing when one does.
CreateAll(d, shape) == IF d.table = "none" THEN CreateTable(d, shape) ELSE d

\* CREATE INDEX name ON items raises when the table is missing or does not
\* have the embedding column, or when the name is taken.
CanCreateIndex(d, name) == d.table \in {"toy", "catalog"} /\ name \notin d.indexes
CreateIndex(d, name) == [d EXCEPT !.indexes = @ \cup {name}]

\* CREATE INDEX ON items: the server picks a name that is free.
FreeIndexName(d) == IF AutoIndex \in d.indexes THEN "items_embedding_idx1" ELSE AutoIndex

\* index.drop(checkfirst=True): DROP INDEX only when the table has it.
DropIndexIfExists(d, name) == [d EXCEPT !.indexes = @ \ {name}]

\* INSERT INTO items: the row must fit the table's columns and its id must
\* be new (primary key).
CanInsert(d, shape, row) ==
    /\ d.table = shape
    /\ \A r \in d.rows : r.id # row.id
InsertRow(d, row) ==
    [d EXCEPT !.rows = @ \cup {row},
              !.nextId = IF row.id >= @ THEN row.id + 1 ELSE @]

\* The sample rows of a toy run: ids from the fresh sequence, in order.
ToyRows == { Row(k, NoName, Embeddings[k]) : k \in 1..Len(Embeddings) }

\* The rows a catalog makes.
CatalogRow(entry) == Row(entry.Id, entry.Name, entry.Embedding)
CatalogRows(c) == { CatalogRow(c[k]) : k \in 1..Len(c) }

\* ------------------------------------------------------------------- state
VARIABLES
    script,         \* the script this run executes
    env,            \* the environment of this run
    catalog,        \* the content of catalog.json as this run loaded it
    pc,             \* the statement the script is at
    status,         \* "running", "ok", "exception" or "exit1"
    err,            \* the exception that ended the run
    password,       \* POSTGRES_PASSWORD as resolved
    tokenRequested, \* get_token was called
    passwordRead,   \* os.environ["POSTGRES_PASSWORD"] was evaluated
    sslmode,        \* the sslmode / ssl parameter passed on, or NoValue
    trace,          \* what reached the database in this run, in order
    db,             \* the committed database
    tx,             \* the database as the open connection or session sees it
    open,           \* the connections and sessions open now
    pending,        \* objects added to the session and not flushed
    idx,            \* loop index of the insert loops
    engine,         \* "none", "created" or "disposed"
    inflight,       \* the awaited operations that have not completed
    target,         \* the row the name lookup returned
    similarity,     \* the embeddings the similarity query was issued with
    distance,       \* the printed closest distance (squared), -1 before
    out,            \* messages printed
    committed,      \* rows this run has committed
    seen,           \* the rows each query of this run saw
    prev            \* how the previous run ended

vars ==
    <<script, env, catalog, pc, status, err, password, tokenRequested,
      passwordRead, sslmode, trace, db, tx, open, pending, idx, engine,
      inflight, target, similarity, distance, out, committed, seen, prev>>

NoPrev == [script |-> "none", catalog |-> <<>>, status |-> "none", db |-> Database(FALSE, "none", {}, {}, 1)]

Init ==
    /\ script = "none"
    /\ env = NoEnv
    /\ catalog = <<>>
    /\ pc = "idle"
    /\ status = "none"
    /\ err = NoValue
    /\ password = NoValue
    /\ tokenRequested = FALSE
    /\ passwordRead = FALSE
    /\ sslmode = NoValue
    /\ trace = <<>>
    /\ db \in PriorDatabases
    /\ tx = db
    /\ open = {}
    /\ pending = <<>>
    /\ idx = 1
    /\ engine = "none"
    /\ inflight = {}
    /\ target = NoRow
    /\ similarity = <<>>
    /\ distance = -1
    /\ out = {}
    /\ committed = {}
    /\ seen = <<>>
    /\ prev = NoPrev

runVars == <<script, env, catalog, prev>>
credVars == <<password, tokenRequested, passwordRead, sslmode>>
dbVars == <<db, tx, committed>>
sessVars == <<open, pending, idx, engine, inflight>>
resVars == <<target, similarity, distance, out, seen>>

\* The script goes on to statement p.
Step(p) == pc' = p /\ UNCHANGED <<status, err>>

\* The script ends by the uncaught exception e.
Fail(e) == pc' = "end" /\ status' = "exception" /\ err' = e

\* ------------------------------------------- configuration (all scripts)
\* psycopg_items.py 10-25; the same statements are sqlalchemy_items.py 22-38,
\* sqlalchemy_movies.py 29-45 and sqlalchemy_async.py 92-109.
RequiredOrder == <<"POSTGRES_HOST", "POSTGRES_USERNAME", "POSTGRES_DATABASE">>

\* A variant that requires the host alone.
HostOnly == {"POSTGRES_HOST"}

\* The settings read by os.environ[...] before anything else.
RequiredSettings == { RequiredOrder[k] : k \in 1..Len(RequiredOrder) }

\* The first name of names, in order, that is not present.
FirstMissing(names, present) ==
    names[SetMin({ k \in 1..Len(names) : names[k] \notin present })]

\* os.environ[...] of the three required settings: KeyError on the first
\* one that is missing.
MissingKey(name) == <<"KeyError", name>>

ReadRequiredSettings ==
    /\ pc = "config"
    /\ IF RequiredSettings \subseteq env.present
         THEN Step("credentials")
         ELSE Fail(MissingKey(FirstMissing(RequiredOrder, env.present)))
    /\ UNCHANGED <<runVars, credVars, dbVars, sessVars, resVars, trace>>

\* A variant of the host test that looks for "azure" anywhere in the name.
MentionsAzure(host) == \E k \in 1..Len(host) : host[k] = "azure"

\* POSTGRES_HOST.endswith(".database.azure.com")
UsesAzureIdentity(host) == EndsWith(host, AzureSuffix)

\* The if/else that sets POSTGRES_PASSWORD.  get_token may raise.
ResolvePassword ==
    /\ pc = "credentials"
    /\ IF UsesAzureIdentity(env.host)
         THEN /\ tokenRequested' = TRUE
              /\ UNCHANGED passwordRead
              /\ \E granted \in BOOLEAN :
                    IF granted
                      THEN password' = TokenValue /\ Step("ssl")
                      ELSE UNCHANGED password /\ Fail(<<"ClientAuthenticationError">>)
         ELSE /\ passwordRead' = TRUE
              /\ UNCHANGED tokenRequested
              /\ IF "POSTGRES_PASSWORD" \in env.present
                   THEN password' = env.password /\ Step("ssl")
                   ELSE UNCHANGED password /\ Fail(MissingKey("POSTGRES_PASSWORD"))
    /\ UNCHANGED <<runVars, sslmode, dbVars, sessVars, resVars, trace>>

\* if POSTGRES_SSL := os.environ.get("POSTGRES_SSL"): absent and empty are
\* both falsy and add no parameter.
ReadSSL ==
    /\ pc = "ssl"
    /\ sslmode' = IF "POSTGRES_SSL" \in env.present /\ env.ssl # NoValue
                    THEN env.ssl ELSE NoValue
    /\ Step("connect")
    /\ UNCHANGED <<runVars, password, tokenRequested, passwordRead, dbVars,
                   sessVars, resVars, trace>>

\* ------------------------------------------------------------ psycopg_items
\* A statement on the autocommit connection, or in a transaction of its own:
\* it is committed as it is executed.
Autocommit(d) == db' = d /\ tx' = d

\* psycopg2.connect(...); conn.autocommit = True; cur = conn.cursor()
P_Connect ==
    /\ script = "psycopg_items" /\ pc = "connect"
    /\ open' = {"conn"}
    /\ trace' = Append(trace, "connect")
    /\ Step("create_extension")
    /\ UNCHANGED <<runVars, credVars, dbVars, pending, idx, engine, inflight, resVars>>

P_CreateExtension ==
    /\ script = "psycopg_items" /\ pc = "create_extension"
    /\ Autocommit(CreateExtensionIfNotExists(db))
    /\ trace' = Append(trace, "create_extension")
    /\ Step("drop_table")
    /\ UNCHANGED <<runVars, credVars, committed, sessVars, resVars>>

P_DropTable ==
    /\ script = "psycopg_items" /\ pc = "drop_table"
    /\ Autocommit(DropTableIfExists(db))
    /\ trace' = Append(trace, "drop_table")
    /\ Step("create_table")
    /\ UNCHANGED <<runVars, credVars, committed, sessVars, resVars>>

\* CREATE TABLE items (id bigserial PRIMARY KEY, embedding vector(3)) and
\* register_vector(conn)
P_CreateTable ==
    /\ script = "psycopg_items" /\ pc = "create_table"
    /\ trace' = Append(trace, "create_table")
    /\ IF CanCreateTable(db)
         THEN /\ Autocommit(CreateTable(db, "toy"))
              /\ Step("create_index")
              /\ UNCHANGED open
         ELSE /\ UNCHANGED <<db, tx>>
              /\ Fail(<<"DuplicateTable">>)
              /\ open' = {}
    /\ UNCHANGED <<runVars, credVars, committed, pending, idx, engine, inflight, resVars>>

\* CREATE INDEX ON items USING hnsw (embedding vector_l2_ops)
P_CreateIndex ==
    /\ script = "psycopg_items" /\ pc = "create_index"
    /\ trace' = Append(trace, "create_index")
    /\ IF CanCreateIndex(db, FreeIndexName(db))
         THEN /\ Autocommit(CreateIndex(db, FreeIndexName(db)))
              /\ Step("insert")
              /\ UNCHANGED open
         ELSE /\ UNCHANGED <<db, tx>>
              /\ Fail(<<"ProgrammingError">>)
              /\ open' = {}
    /\ UNCHANGED <<runVars, credVars, committed, pending, idx, engine, inflight, resVars>>

\* One turn of: for embedding in embeddings: cur.execute("INSERT ...")
P_Insert ==
    /\ script = "psycopg_items" /\ pc = "insert"
    /\ trace' = Append(trace, "insert")
    /\ LET row == Row(db.nextId, NoName, Embeddings[idx]) IN
       IF CanInsert(db, "toy", row)
         THEN /\ Autocommit(InsertRow(db, row))
              /\ committed' = committed \cup {row}
              /\ idx' = idx + 1
              /\ Step(IF idx = Len(Embeddings) THEN "select_all" ELSE "insert")
              /\ UNCHANGED open
         ELSE /\ UNCHANGED <<db, tx, committed, idx>>
              /\ Fail(<<"IntegrityError">>)
              /\ open' = {}
    /\ UNCHANGED <<runVars, credVars, pending, engine, inflight, resVars>>


\* --------------------------------------------------------------- the queries
\* embedding <-> q, squared
Distances(rows, q) == { L2DistanceSq(r.embedding, q) : r \in rows }

\* SELECT embedding <-> q AS distance FROM items ORDER BY embedding <-> q
\* LIMIT 1: the smallest distance (rows has a row).
OrderedFirstDistance(rows, q) == SetMin(Distances(rows, q))

\* select(Item.embedding.l2_distance(q)) with .first(): the statement has no
\* ORDER BY, so the first row is whichever row the server returns first.
UnorderedFirstDistances(rows, q) == Distances(rows, q)

\* SELECT * FROM items WHERE embedding <-> q < 5
Within(rows, q, limit) == { r \in rows : L2DistanceSq(r.embedding, q) < Sq(limit) }

P_SelectAll ==
    /\ script = "psycopg_items" /\ pc = "select_all"
    /\ trace' = Append(trace, "select")
    /\ seen' = Append(seen, tx.rows)
    /\ out' = out \cup {"all_vectors"}
    /\ Step("closest_two")
    /\ UNCHANGED <<runVars, credVars, dbVars, sessVars, target, similarity, distance>>

P_ClosestTwo ==
    /\ script = "psycopg_items" /\ pc = "closest_two"
    /\ trace' = Append(trace, "select")
    /\ seen' = Append(seen, tx.rows)
    /\ out' = out \cup {"two_closest"}
    /\ Step("distance")
    /\ UNCHANGED <<runVars, credVars, dbVars, sessVars, target, similarity, distance>>

\* The ORDER BY ... LIMIT 1 distance query, cur.fetchone() and distance[0]
P_Distance ==
    /\ script = "psycopg_items" /\ pc = "distance"
    /\ trace' = Append(trace, "select")
    /\ seen' = Append(seen, tx.rows)
    /\ IF tx.rows # {}
         THEN /\ distance' = OrderedFirstDistance(tx.rows, EmbeddingPredicate)
              /\ out' = out \cup {"distance"}
              /\ Step("within")
              /\ UNCHANGED open
         ELSE /\ UNCHANGED <<distance, out>>
              /\ Fail(<<"TypeError">>)
              /\ open' = {}
    /\ UNCHANGED <<runVars, credVars, dbVars, pending, idx, engine, inflight,
                   target, similarity>>

P_Within ==
    /\ script = "psycopg_items" /\ pc = "within"
    /\ trace' = Append(trace, "select")
    /\ seen' = Append(seen, tx.rows)
    /\ out' = out \cup {"within_5"}
    /\ Step("average")
    /\ UNCHANGED <<runVars, credVars, dbVars, sessVars, target, similarity, distance>>

\* SELECT avg(embedding) FROM items, then cur.close() and the script ends.
P_Average ==
    /\ script = "psycopg_items" /\ pc = "average"
    /\ trace' = Append(trace, "select")
    /\ seen' = Append(seen, tx.rows)
    /\ out' = out \cup {"average"}
    /\ pc' = "end" /\ status' = "ok" /\ UNCHANGED err
    /\ open' = {}
    /\ UNCHANGED <<runVars, credVars, dbVars, pending, idx, engine, inflight,
                   target, similarity, distance>>

\* --------------------------------------------------------- the ORM session
\* What a flush sends: one INSERT per pending object, in the order added.
\* An object without an id takes the next value of the table's sequence.
WithId(d, r) == IF r.id = 0 THEN [r EXCEPT !.id = d.nextId] ELSE r

RECURSIVE CanFlush(_, _, _)
CanFlush(d, shape, p) ==
    \/ p = <<>>
    \/ /\ CanInsert(d, shape, WithId(d, Head(p)))
       /\ CanFlush(InsertRow(d, WithId(d, Head(p))), shape, Tail(p))

RECURSIVE Flushed(_, _)
Flushed(d, p) ==
    IF p = <<>> THEN d ELSE Flushed(InsertRow(d, WithId(d, Head(p))), Tail(p))

\* A variant for a session made with autoflush=False.
NoAutoflush(d, p) == d

\* The autoflush of session.scalars / session.execute: what is pending is
\* sent before the SELECT.
Autoflush(d, p) == Flushed(d, p)

Inserts(p) == [k \in 1..Len(p) |-> "insert"]

\* -------------------------------------------------------- sqlalchemy_items
\* DATABASE_URI and create_engine: no connection is opened yet.
S_CreateEngine ==
    /\ script = "sqlalchemy_items" /\ pc = "connect"
    /\ engine' = "created"
    /\ Step("create_extension")
    /\ UNCHANGED <<runVars, credVars, dbVars, open, pending, idx, inflight, resVars, trace>>

\* with engine.begin() as conn: conn.execute(CREATE EXTENSION IF NOT EXISTS)
S_CreateExtension ==
    /\ script = "sqlalchemy_items" /\ pc = "create_extension"
    /\ Autocommit(CreateExtensionIfNotExists(db))
    /\ trace' = trace \o <<"connect", "create_extension">>
    /\ Step("drop_table")
    /\ UNCHANGED <<runVars, credVars, committed, sessVars, resVars>>

\* Base.metadata.drop_all(engine)
S_DropAll ==
    /\ script = "sqlalchemy_items" /\ pc = "drop_table"
    /\ Autocommit(DropTableIfExists(db))
    /\ trace' = Append(trace, "drop_table")
    /\ Step("create_table")
    /\ UNCHANGED <<runVars, credVars, committed, sessVars, resVars>>

\* Base.metadata.create_all(engine)
S_CreateAll ==
    /\ script = "sqlalchemy_items" /\ pc = "create_table"
    /\ Autocommit(CreateAll(db, "toy"))
    /\ trace' = Append(trace, "create_table")
    /\ Step("open_session")
    /\ UNCHANGED <<runVars, credVars, committed, sessVars, resVars>>

\* with Session(engine) as session: and the Index(...) object
S_OpenSession ==
    /\ script = "sqlalchemy_items" /\ pc = "open_session"
    /\ open' = {"session"}
    /\ Step("create_index")
    /\ UNCHANGED <<runVars, credVars, dbVars, pending, idx, engine, inflight, resVars, trace>>

\* index.create(engine), on a connection of its own
S_CreateIndex ==
    /\ script = "sqlalchemy_items" /\ pc = "create_index"
    /\ trace' = Append(trace, "create_index")
    /\ IF CanCreateIndex(db, EuclideanIndex)
         THEN /\ Autocommit(CreateIndex(db, EuclideanIndex))
              /\ Step("insert")
              /\ UNCHANGED open
         ELSE /\ UNCHANGED <<db, tx>>
              /\ Fail(<<"ProgrammingError">>)
              /\ open' = {}
    /\ UNCHANGED <<runVars, credVars, committed, pending, idx, engine, inflight, resVars>>

\* session.add_all([...]): the three items are pending, nothing is sent.
S_AddAll ==
    /\ script = "sqlalchemy_items" /\ pc = "insert"
    /\ pending' = [k \in 1..Len(Embeddings) |-> Row(0, NoName, Embeddings[k])]
    /\ Step("select_all")
    /\ UNCHANGED <<runVars, credVars, dbVars, open, idx, engine, inflight, resVars, trace>>

\* A query of the session that prints under the tag what and goes on to
\* next: the session flushes what is pending, then runs the SELECT in its
\* transaction.  A failing flush rolls back and ends the script.
S_Query(at, what, next) ==
    /\ script = "sqlalchemy_items" /\ pc = at
    /\ IF CanFlush(tx, "toy", pending)
         THEN /\ tx' = Autoflush(tx, pending)
              /\ trace' = (trace \o Inserts(pending)) \o <<"select">>
              /\ seen' = Append(seen, tx'.rows)
              /\ out' = out \cup {what}
              /\ Step(next)
              /\ UNCHANGED open
         ELSE /\ tx' = db
              /\ trace' = Append(trace, "insert")
              /\ UNCHANGED <<seen, out>>
              /\ Fail(<<"ProgrammingError">>)
              /\ open' = {}
    /\ pending' = <<>>
    /\ UNCHANGED <<runVars, credVars, db, committed, idx, engine, inflight,
                   target, similarity>>

S_SelectAll == S_Query("select_all", "all_vectors", "closest_two") /\ UNCHANGED distance

S_ClosestTwo == S_Query("closest_two", "two_closest", "distance") /\ UNCHANGED distance

\* session.scalars(select(Item.embedding.l2_distance([3, 1, 2]))).first():
\* None when there is no row.
S_Distance ==
    /\ S_Query("distance", "distance", "within")
    /\ IF pc' = "within" /\ tx'.rows # {}
         THEN distance' \in UnorderedFirstDistances(tx'.rows, EmbeddingPredicate)
         ELSE UNCHANGED distance

S_Within == S_Query("within", "within_5", "average") /\ UNCHANGED distance

\* The last query, and the end of the with block: the session is closed and
\* its transaction, never committed, is rolled back.
S_Average ==
    /\ script = "sqlalchemy_items" /\ pc = "average"
    /\ IF CanFlush(tx, "toy", pending)
         THEN /\ trace' = ((trace \o Inserts(pending)) \o <<"select">>) \o <<"rollback">>
              /\ seen' = Append(seen, Autoflush(tx, pending).rows)
              /\ out' = out \cup {"average"}
              /\ pc' = "end" /\ status' = "ok" /\ UNCHANGED err
         ELSE /\ trace' = Append(trace, "insert")
              /\ UNCHANGED <<seen, out>>
              /\ Fail(<<"ProgrammingError">>)
    /\ tx' = db
    /\ open' = {}
    /\ pending' = <<>>
    /\ UNCHANGED <<runVars, credVars, db, committed, idx, engine, inflight,
                   target, similarity, distance>>

\* ------------------------------------------------------- sqlalchemy_movies
\* select(Item).where(Item.name == "LumenHead Headlamp")
Matches(rows) == { r \in rows : r.name = TargetName }

\* .first(): a row of the result, or None (NoRow) when it is empty.
First(result) == IF result = {} THEN {NoRow} ELSE result

\* A variant without the test for None.
NeverNone(row) == FALSE

\* target_item is None
IsNone(row) == row = NoRow

\* The pending object an entry of the catalog makes.
NewItem(entry) == CatalogRow(entry)

\* A variant that leaves the loop and commits after the first item.
CommitAfterFirst(c, k) == IF k >= 1 \/ Len(c) = 0 THEN "commit" ELSE "add_item"

\* Where the for loop over catalog_items goes after turn k.
AfterTurn(c, k) == IF k >= Len(c) THEN "commit" ELSE "add_item"

M_CreateEngine ==
    /\ script = "sqlalchemy_movies" /\ pc = "connect"
    /\ engine' = "created"
    /\ Step("create_extension")
    /\ UNCHANGED <<runVars, credVars, dbVars, open, pending, idx, inflight, resVars, trace>>

M_CreateExtension ==
    /\ script = "sqlalchemy_movies" /\ pc = "create_extension"
    /\ Autocommit(CreateExtensionIfNotExists(db))
    /\ trace' = trace \o <<"connect", "create_extension">>
    /\ Step("drop_table")
    /\ UNCHANGED <<runVars, credVars, committed, sessVars, resVars>>

M_DropAll ==
    /\ script = "sqlalchemy_movies" /\ pc = "drop_table"
    /\ Autocommit(DropTableIfExists(db))
    /\ trace' = Append(trace, "drop_table")
    /\ Step("create_table")
    /\ UNCHANGED <<runVars, credVars, committed, sessVars, resVars>>

M_CreateAll ==
    /\ script = "sqlalchemy_movies" /\ pc = "create_table"
    /\ Autocommit(CreateAll(db, "catalog"))
    /\ trace' = Append(trace, "create_table")
    /\ Step("open_session")
    /\ UNCHANGED <<runVars, credVars, committed, sessVars, resVars>>

M_OpenSession ==
    /\ script = "sqlalchemy_movies" /\ pc = "open_session"
    /\ open' = {"session"}
    /\ Step("create_index")
    /\ UNCHANGED <<runVars, credVars, dbVars, pending, idx, engine, inflight, resVars, trace>>

\* index.drop(engine, checkfirst=True); index.create(engine)
M_CreateIndex ==
    /\ script = "sqlalchemy_movies" /\ pc = "create_index"
    /\ trace' = Append(trace, "create_index")
    /\ LET d == DropIndexIfExists(db, CosineIndex) IN
       IF CanCreateIndex(d, CosineIndex)
         THEN /\ Autocommit(CreateIndex(d, CosineIndex))
              /\ Step("load_catalog")
              /\ UNCHANGED open
         ELSE /\ Autocommit(d)
              /\ Fail(<<"ProgrammingError">>)
              /\ open' = {}
    /\ UNCHANGED <<runVars, credVars, committed, pending, idx, engine, inflight, resVars>>

\* with open(data_path) as f: catalog_items = json.load(f)
M_LoadCatalog ==
    /\ script = "sqlalchemy_movies" /\ pc = "load_catalog"
    /\ catalog' \in Catalogs
    /\ idx' = 1
    /\ Step(AfterTurn(catalog', 0))
    /\ UNCHANGED <<script, env, prev, credVars, dbVars, open, pending, engine,
                   inflight, resVars, trace>>

\* One turn of the for loop: Item(id=catalog_item["Id"], ...) raises
\* KeyError on a missing field, which closes the session; session.add(item)
\* sends nothing.
M_AddItem ==
    /\ script = "sqlalchemy_movies" /\ pc = "add_item"
    /\ IF catalog[idx].complete
         THEN /\ pending' = Append(pending, NewItem(catalog[idx]))
              /\ idx' = idx + 1
              /\ Step(AfterTurn(catalog, idx))
              /\ UNCHANGED open
         ELSE /\ pending' = <<>>
              /\ UNCHANGED idx
              /\ Fail(MissingKey("catalog field"))
              /\ open' = {}
    /\ UNCHANGED <<runVars, credVars, dbVars, engine, inflight, resVars, trace>>

\* session.commit(): flush the pending items and commit them in one
\* transaction; a failing INSERT rolls the transaction back.
M_Commit ==
    /\ script = "sqlalchemy_movies" /\ pc = "commit"
    /\ IF CanFlush(tx, "catalog", pending)
         THEN /\ db' = Flushed(tx, pending)
              /\ tx' = db'
              /\ committed' = committed \cup (db'.rows \ tx.rows)
              /\ trace' = (trace \o Inserts(pending)) \o <<"commit">>
              /\ Step("lookup")
              /\ UNCHANGED open
         ELSE /\ tx' = db
              /\ trace' = trace \o <<"insert", "rollback">>
              /\ UNCHANGED <<db, committed>>
              /\ Fail(<<"IntegrityError">>)
              /\ open' = {}
    /\ pending' = <<>>
    /\ UNCHANGED <<runVars, credVars, idx, engine, inflight, resVars>>

\* session.execute(query).scalars().first(): no ORDER BY, so any matching
\* row may come first, and None when there is none; then print and exit(1).
M_Lookup ==
    /\ script = "sqlalchemy_movies" /\ pc = "lookup"
    /\ trace' = Append(trace, "select")
    /\ seen' = Append(seen, tx.rows)
    /\ target' \in First(Matches(tx.rows))
    /\ IF IsNone(target')
         THEN /\ out' = out \cup {"not_found"}
              /\ pc' = "end" /\ status' = "exit1" /\ UNCHANGED err
              /\ open' = {}
         ELSE /\ Step("similarity")
              /\ UNCHANGED <<out, open>>
    /\ UNCHANGED <<runVars, credVars, dbVars, pending, idx, engine, inflight,
                   similarity, distance>>

\* The similarity query ordered by cosine distance to target_item.embedding,
\* the prints, and the end of the with block.
M_Similarity ==
    /\ script = "sqlalchemy_movies" /\ pc = "similarity"
    /\ trace' = Append(trace, "select")
    /\ seen' = Append(seen, tx.rows)
    /\ similarity' = Append(similarity, target.embedding)
    /\ out' = out \cup {"five_most_similar"}
    /\ pc' = "end" /\ status' = "ok" /\ UNCHANGED err
    /\ open' = {}
    /\ UNCHANGED <<runVars, credVars, dbVars, pending, idx, engine, inflight,
                   target, distance>>

\* -------------------------------------------------------- sqlalchemy_async
\* A variant in which the operations are started and not awaited.
NotAwaited == TRUE

\* await: the coroutine goes on only when the operation it awaited has
\* completed.  async_main is the only task of the event loop.
Awaited == inflight = {}

\* The awaited operation op is issued.
Issue(op) == inflight' = inflight \cup {op}

\* The awaited operation completes and the coroutine is resumed.
A_Complete ==
    /\ script = "sqlalchemy_async"
    /\ \E op \in inflight : inflight' = inflight \ {op}
    /\ UNCHANGED <<runVars, credVars, dbVars, open, pending, idx, engine, resVars,
                   trace, pc, status, err>>

\* DATABASE_URI, create_async_engine and async_sessionmaker
A_CreateEngine ==
    /\ script = "sqlalchemy_async" /\ pc = "connect"
    /\ Awaited
    /\ engine' = "created"
    /\ Step("begin")
    /\ UNCHANGED <<runVars, credVars, dbVars, open, pending, idx, inflight, resVars, trace>>

\* async with engine.begin() as conn: a connection and a transaction
A_Begin ==
    /\ script = "sqlalchemy_async" /\ pc = "begin"
    /\ Awaited /\ Issue("engine.begin")
    /\ open' = open \cup {"conn"}
    /\ trace' = Append(trace, "connect")
    /\ Step("create_extension")
    /\ UNCHANGED <<runVars, credVars, dbVars, pending, idx, engine, resVars>>

\* await conn.execute(text("CREATE EXTENSION IF NOT EXISTS vector"))
A_CreateExtension ==
    /\ script = "sqlalchemy_async" /\ pc = "create_extension"
    /\ Awaited /\ Issue("conn.execute")
    /\ tx' = CreateExtensionIfNotExists(tx)
    /\ trace' = Append(trace, "create_extension")
    /\ Step("drop_table")
    /\ UNCHANGED <<runVars, credVars, db, committed, open, pending, idx, engine, resVars>>

\* await conn.run_sync(Base.metadata.drop_all)
A_DropAll ==
    /\ script = "sqlalchemy_async" /\ pc = "drop_table"
    /\ Awaited /\ Issue("drop_all")
    /\ tx' = DropTableIfExists(tx)
    /\ trace' = Append(trace, "drop_table")
    /\ Step("create_table")
    /\ UNCHANGED <<runVars, credVars, db, committed, open, pending, idx, engine, resVars>>

\* await conn.run_sync(Base.metadata.create_all)
A_CreateAll ==
    /\ script = "sqlalchemy_async" /\ pc = "create_table"
    /\ Awaited /\ Issue("create_all")
    /\ tx' = CreateAll(tx, "catalog")
    /\ trace' = Append(trace, "create_table")
    /\ Step("create_index")
    /\ UNCHANGED <<runVars, credVars, db, committed, open, pending, idx, engine, resVars>>

\* await conn.run_sync(create_index): index.drop(conn, checkfirst=True) and
\* index.create(conn).  An exception leaves the async with block, which
\* rolls the transaction back and closes the connection.
A_CreateIndex ==
    /\ script = "sqlalchemy_async" /\ pc = "create_index"
    /\ Awaited
    /\ trace' = Append(trace, "create_index")
    /\ LET d == DropIndexIfExists(tx, CosineIndex) IN
       IF CanCreateIndex(d, CosineIndex)
         THEN /\ tx' = CreateIndex(d, CosineIndex)
              /\ Issue("create_index")
              /\ Step("commit_schema")
              /\ UNCHANGED open
         ELSE /\ tx' = db
              /\ UNCHANGED inflight
              /\ Fail(<<"ProgrammingError">>)
              /\ open' = {}
    /\ UNCHANGED <<runVars, credVars, db, committed, pending, idx, engine, resVars>>

\* The end of async with engine.begin(): commit and release the connection.
A_CommitSchema ==
    /\ script = "sqlalchemy_async" /\ pc = "commit_schema"
    /\ Awaited /\ Issue("conn.commit")
    /\ db' = tx
    /\ open' = open \ {"conn"}
    /\ trace' = Append(trace, "commit")
    /\ Step("open_session")
    /\ UNCHANGED <<runVars, credVars, tx, committed, pending, idx, engine, resVars>>

\* insert_objects: async with async_session() as session, session.begin(),
\* and json.load(f)
A_OpenInsertSession ==
    /\ script = "sqlalchemy_async" /\ pc = "open_session"
    /\ Awaited
    /\ open' = open \cup {"insert_session"}
    /\ catalog' \in Catalogs
    /\ idx' = 1
    /\ Step(AfterTurn(catalog', 0))
    /\ UNCHANGED <<script, env, prev, credVars, dbVars, pending, engine,
                   inflight, resVars, trace>>

\* One turn of the for loop of insert_objects.  KeyError leaves both async
\* with blocks: rollback and close.
A_AddItem ==
    /\ script = "sqlalchemy_async" /\ pc = "add_item"
    /\ Awaited
    /\ IF catalog[idx].complete
         THEN /\ pending' = Append(pending, NewItem(catalog[idx]))
              /\ idx' = idx + 1
              /\ Step(AfterTurn(catalog, idx))
              /\ UNCHANGED open
         ELSE /\ pending' = <<>>
              /\ UNCHANGED idx
              /\ Fail(MissingKey("catalog field"))
              /\ open' = {}
    /\ UNCHANGED <<runVars, credVars, dbVars, engine, inflight, resVars, trace>>

\* await session.commit()
A_Commit ==
    /\ script = "sqlalchemy_async" /\ pc = "commit"
    /\ Awaited
    /\ IF CanFlush(tx, "catalog", pending)
         THEN /\ db' = Flushed(tx, pending)
              /\ tx' = db'
              /\ committed' = committed \cup (db'.rows \ tx.rows)
              /\ trace' = (trace \o Inserts(pending)) \o <<"commit">>
              /\ Issue("session.commit")
              /\ Step("close_session")
              /\ UNCHANGED open
         ELSE /\ tx' = db
              /\ trace' = trace \o <<"insert", "rollback">>
              /\ UNCHANGED <<db, committed, inflight>>
              /\ Fail(<<"IntegrityError">>)
              /\ open' = {}
    /\ pending' = <<>>
    /\ UNCHANGED <<runVars, credVars, idx, engine, resVars>>

\* The end of the two async with blocks of insert_objects: the transaction
\* is already committed, the session is closed.
A_CloseInsertSession ==
    /\ script = "sqlalchemy_async" /\ pc = "close_session"
    /\ Awaited /\ Issue("session.close")
    /\ open' = open \ {"insert_session"}
    /\ Step("open_select")
    /\ UNCHANGED <<runVars, credVars, dbVars, pending, idx, engine, resVars, trace>>

\* select_and_update_objects: async with async_session() as session
A_OpenSelectSession ==
    /\ script = "sqlalchemy_async" /\ pc = "open_select"
    /\ Awaited
    /\ open' = open \cup {"select_session"}
    /\ Step("lookup")
    /\ UNCHANGED <<runVars, credVars, dbVars, pending, idx, engine, inflight, resVars, trace>>

\* (await session.execute(query)).scalars().first(); on None print and
\* exit(1): SystemExit leaves the async with block (the session is closed)
\* and async_main, past engine.dispose().
A_Lookup ==
    /\ script = "sqlalchemy_async" /\ pc = "lookup"
    /\ Awaited
    /\ trace' = Append(trace, "select")
    /\ seen' = Append(seen, tx.rows)
    /\ target' \in First(Matches(tx.rows))
    /\ IF IsNone(target')
         THEN /\ out' = out \cup {"not_found"}
              /\ pc' = "end" /\ status' = "exit1" /\ UNCHANGED err
              /\ open' = {}
              /\ UNCHANGED inflight
         ELSE /\ Issue("session.execute")
              /\ Step("similarity")
              /\ UNCHANGED <<out, open>>
    /\ UNCHANGED <<runVars, credVars, dbVars, pending, idx, engine,
                   similarity, distance>>

\* await session.scalars(select(Item).order_by(cosine_distance(...)).limit(5))
A_Similarity ==
    /\ script = "sqlalchemy_async" /\ pc = "similarity"
    /\ Awaited /\ Issue("session.scalars")
    /\ trace' = Append(trace, "select")
    /\ seen' = Append(seen, tx.rows)
    /\ similarity' = Append(similarity, target.embedding)
    /\ Step("close_select")
    /\ UNCHANGED <<runVars, credVars, dbVars, open, pending, idx, engine, target,
                   distance, out>>

\* The prints and the end of the async with block of
\* select_and_update_objects.
A_CloseSelectSession ==
    /\ script = "sqlalchemy_async" /\ pc = "close_select"
    /\ Awaited /\ Issue("session.close")
    /\ out' = out \cup {"five_most_similar"}
    /\ open' = open \ {"select_session"}
    /\ Step("dispose")
    /\ UNCHANGED <<runVars, credVars, dbVars, pending, idx, engine, target,
                   similarity, distance, seen, trace>>

\* await engine.dispose(), and async_main returns.
A_Dispose ==
    /\ script = "sqlalchemy_async" /\ pc = "dispose"
    /\ Awaited /\ Issue("engine.dispose")
    /\ engine' = "disposed"
    /\ pc' = "end" /\ status' = "ok" /\ UNCHANGED err
    /\ UNCHANGED <<runVars, credVars, dbVars, open, pending, idx, resVars, trace>>

\* -------------------------------------------------------------- the machine
\* The process ends: what the script held in memory is gone, the database
\* stays.  prev remembers how the run ended unless an exception ended it.
ProcessExit ==
    /\ pc = "end"
    /\ inflight = {}
    /\ pc' = "idle"
    /\ prev' = IF status # "exception"
                 THEN [script |-> script, catalog |-> catalog, status |-> status, db |-> db]
                 ELSE NoPrev
    /\ script' = "none"
    /\ env' = NoEnv
    /\ catalog' = <<>>
    /\ status' = "none"
    /\ err' = NoValue
    /\ password' = NoValue
    /\ tokenRequested' = FALSE
    /\ passwordRead' = FALSE
    /\ sslmode' = NoValue
    /\ trace' = <<>>
    /\ tx' = db
    /\ open' = {}
    /\ pending' = <<>>
    /\ idx' = 1
    /\ engine' = "none"
    /\ target' = NoRow
    /\ similarity' = <<>>
    /\ distance' = -1
    /\ out' = {}
    /\ committed' = {}
    /\ seen' = <<>>
    /\ UNCHANGED <<db, inflight>>

\* A run starts: one of the scripts, in some environment (load_dotenv),
\* against the database as the runs so far have left it.
StartRun ==
    /\ pc = "idle"
    /\ script' \in Scripts
    /\ env' \in Envs
    /\ pc' = "config"
    /\ status' = "running"
    /\ UNCHANGED <<catalog, prev, err, credVars, dbVars, sessVars, resVars, trace>>

Next ==
    \/ ReadRequiredSettings
    \/ ResolvePassword
    \/ ReadSSL
    \/ P_Connect
    \/ P_CreateExtension
    \/ P_DropTable
    \/ P_CreateTable
    \/ P_CreateIndex
    \/ P_Insert
    \/ P_SelectAll
    \/ P_ClosestTwo
    \/ P_Distance
    \/ P_Within
    \/ P_Average
    \/ S_CreateEngine
    \/ S_CreateExtension
    \/ S_DropAll
    \/ S_CreateAll
    \/ S_OpenSession
    \/ S_CreateIndex
    \/ S_AddAll
    \/ S_SelectAll
    \/ S_ClosestTwo
    \/ S_Distance
    \/ S_Within
    \/ S_Average
    \/ M_CreateEngine
    \/ M_CreateExtension
    \/ M_DropAll
    \/ M_CreateAll
    \/ M_OpenSession
    \/ M_CreateIndex
    \/ M_LoadCatalog
    \/ M_AddItem
    \/ M_Commit
    \/ M_Lookup
    \/ M_Similarity
    \/ A_Complete
    \/ A_CreateEngine
    \/ A_Begin
    \/ A_CreateExtension
    \/ A_DropAll
    \/ A_CreateAll
    \/ A_CreateIndex
    \/ A_CommitSchema
    \/ A_OpenInsertSession
    \/ A_AddItem
    \/ A_Commit
    \/ A_CloseInsertSession
    \/ A_OpenSelectSession
    \/ A_Lookup
    \/ A_Similarity
    \/ A_CloseSelectSession
    \/ A_Dispose
    \/ ProcessExit
    \/ StartRun

Spec == Init /\ [][Next]_vars

\* ================================================================ the claims
Running == script # "none"
AzureHost == EndsWith(env.host, AzureSuffix)
PastCredentials == pc \in {"ssl", "connect"} \/ engine # "none" \/ trace # <<>>
Count(seq, op) == Cardinality({ k \in 1..Len(seq) : seq[k] = op })
SampleRows == IF script \in ToyScripts THEN ToyRows ELSE CatalogRows(catalog)
VectorsOf(rows) == { r.embedding : r \in rows }

\* The part of C1 that holds of every run: the hostname suffix alone picks
\* the source.  A host ending in ".database.azure.com" has a token requested,
\* the token is the password and POSTGRES_PASSWORD is never read; any other
\* host has no token requested and the password is the POSTGRES_PASSWORD
\* setting; the two sources are never both consulted.
SuffixPicksSource ==
    /\ ~(tokenRequested /\ passwordRead)
    /\ tokenRequested => AzureHost
    /\ passwordRead => ~AzureHost
    /\ (password # NoValue /\ AzureHost) => (tokenRequested /\ password = TokenValue)
    /\ (password # NoValue /\ ~AzureHost) => (passwordRead /\ password = env.password)
    /\ (PastCredentials /\ AzureHost) => password = TokenValue
    /\ (PastCredentials /\ ~AzureHost) => password = env.password

RequiredErrors == { <<"KeyError", RequiredOrder[k]>> : k \in 1..Len(RequiredOrder) }

\* C1 as amended: the hostname suffix alone picks the source of the password,
\* and exactly one of the two sources is consulted in any run that has read
\* POSTGRES_HOST, POSTGRES_USERNAME and POSTGRES_DATABASE and come to the
\* choice; a run that ends on one of those three missing consults neither.
C1_PasswordBySuffix ==
    Running =>
      /\ SuffixPicksSource
      /\ (pc \notin {"config", "credentials"} /\ err \notin RequiredErrors)
           => tokenRequested # passwordRead
      /\ err \in RequiredErrors => (~tokenRequested /\ ~passwordRead)

\* C1 as stated: the same, with exactly one of the two sources consulted in
\* any run, whatever way it ends.
C1_ExactlyOneSourceInAnyRun ==
    Running =>
      /\ SuffixPicksSource
      /\ pc = "end" => tokenRequested # passwordRead

\* An Azure host with POSTGRES_PASSWORD set as well: the run connects with
\* the token.
C1_Witness ==
    /\ AzureHost
    /\ "POSTGRES_PASSWORD" \in env.present
    /\ password = TokenValue
    /\ "connect" \in { trace[k] : k \in 1..Len(trace) }

\* C2: a run without POSTGRES_HOST, POSTGRES_USERNAME or POSTGRES_DATABASE,
\* or without POSTGRES_PASSWORD for a host that is not an Azure host, never
\* gets past its configuration: nothing reaches the database, no connection
\* or engine exists, and it ends by the KeyError of a setting.  A run whose
\* settings are complete never ends by the KeyError of a setting, whatever
\* POSTGRES_SSL is.
Misconfigured ==
    \/ "POSTGRES_HOST" \notin env.present
    \/ "POSTGRES_USERNAME" \notin env.present
    \/ "POSTGRES_DATABASE" \notin env.present
    \/ ("POSTGRES_PASSWORD" \notin env.present /\ ~AzureHost)

SettingErrors == { <<"KeyError", n>> : n \in SettingNames }

C2_MissingConfigFailsAtStartup ==
    Running =>
      /\ Misconfigured =>
           /\ pc \in {"config", "credentials", "end"}
           /\ trace = <<>> /\ open = {} /\ engine = "none" /\ tx = db
           /\ pc = "end" => (status = "exception" /\ err \in SettingErrors)
      /\ ~Misconfigured => err \notin SettingErrors

\* The asynchronous script without POSTGRES_USERNAME has ended.
C2_Witness ==
    /\ script = "sqlalchemy_async"
    /\ "POSTGRES_HOST" \in env.present
    /\ "POSTGRES_USERNAME" \notin env.present
    /\ pc = "end"
    /\ err = <<"KeyError", "POSTGRES_USERNAME">>

\* C3: in the catalog scripts a lookup that returns no row prints the
\* not-found message and exits with status 1 without issuing the similarity
\* query; a lookup that returns a row is followed by exactly one similarity
\* query, issued with that row's embedding.
C3_LookupDecidesSimilarity ==
    script \in CatalogScripts =>
      /\ "not_found" \in out =>
           /\ pc = "end" /\ status = "exit1"
           /\ similarity = <<>>
           /\ Count(trace, "select") = 1
      /\ (Count(trace, "select") >= 1 /\ Matches(seen[1]) = {}) => "not_found" \in out
      /\ similarity # <<>> =>
           /\ Len(similarity) = 1
           /\ target \in Matches(seen[1])
           /\ similarity[1] = target.embedding
      /\ status = "ok" => (Len(similarity) = 1 /\ Count(trace, "select") = 2)

\* The asynchronous script committed a catalog without the named item and
\* exited.
C3_Witness ==
    /\ script = "sqlalchemy_async"
    /\ committed # {}
    /\ "not_found" \in out
    /\ status = "exit1"

\* C4: what reaches the database comes in the order connect, create
\* extension, drop table, create table, create index, inserts, queries; the
\* index is created on an existing table before any insert; and every query
\* is sent after all sample rows were, and sees them all.
Rank(op) ==
    CASE op = "connect" -> 1
      [] op = "create_extension" -> 2
      [] op = "drop_table" -> 3
      [] op = "create_table" -> 4
      [] op = "create_index" -> 5
      [] op = "insert" -> 6
      [] op = "select" -> 7
      [] OTHER -> 0

Before(k, op) == Cardinality({ j \in 1..(k - 1) : trace[j] = op })

C4_FixedOrder ==
    Running =>
      /\ \A j, k \in 1..Len(trace) :
           (j < k /\ Rank(trace[j]) > 0 /\ Rank(trace[k]) > 0)
             => Rank(trace[j]) <= Rank(trace[k])
      /\ \A k \in 1..Len(trace) :
           /\ trace[k] = "create_index" =>
                (Before(k, "create_table") = 1 /\ Before(k, "insert") = 0)
           /\ trace[k] = "select" =>
                (Before(k, "create_index") = 1
                 /\ Before(k, "insert") = Cardinality(SampleRows))
      /\ (Count(trace, "create_index") = 1 /\ status # "exception") => tx.indexes # {}
      /\ \A k \in 1..Len(seen) : VectorsOf(SampleRows) \subseteq VectorsOf(seen[k])

\* sqlalchemy_items has run its first query.
C4_Witness ==
    /\ script = "sqlalchemy_items"
    /\ pc = "closest_two"
    /\ Len(seen) = 1
    /\ Count(trace, "insert") = 3

\* C5: in the asynchronous script at most one awaited operation is in
\* flight and at most one connection or session is open; while the session
\* of insert_objects is open the schema transaction is finished (committed,
\* nothing of it in flight); while the session of select_and_update_objects
\* is open insert_objects is finished (its rows committed, its session
\* closed, nothing of it in flight).
SchemaOps ==
    {"engine.begin", "conn.execute", "drop_all", "create_all", "create_index", "conn.commit"}

C5_OneOperationOneSession ==
    script = "sqlalchemy_async" =>
      /\ Cardinality(inflight) <= 1
      /\ Cardinality(open) <= 1
      /\ "insert_session" \in open =>
           /\ inflight \cap SchemaOps = {}
           /\ db.table = "catalog" /\ CosineIndex \in db.indexes
           /\ Count(trace, "commit") >= 1
      /\ "select_session" \in open =>
           /\ inflight \subseteq {"session.execute", "session.scalars"}
           /\ pending = <<>>
           /\ committed = CatalogRows(catalog)
           /\ db.rows = CatalogRows(catalog)

\* The lookup is in flight in the second session.
C5_Witness ==
    /\ script = "sqlalchemy_async"
    /\ open = {"select_session"}
    /\ inflight = {"session.execute"}
    /\ committed # {}

\* C6: in the toy scripts the printed closest distance is the smallest
\* distance from [3, 1, 2] to a row of the table, in whatever order the
\* server returns rows.
C6_PrintedDistanceIsMinimum ==
    (script \in ToyScripts /\ "distance" \in out /\ Len(seen) >= 3)
      => distance = SetMin(Distances(seen[3], EmbeddingPredicate))

\* C7: a script can be run from any prior state of the extension, the items
\* table and its indexes: its setup raises no already-exists error and its
\* inserts no duplicate key against an older row; its first query sees
\* exactly the sample rows of this run; and a second run of the same script
\* with the same catalog leaves the database as the first did.
HasDuplicateIds(c) == \E j, k \in 1..Len(c) : j # k /\ c[j].Id = c[k].Id

C8_EngineDisposedOnEveryPath ==
    (script = "sqlalchemy_async" /\ pc = "end" /\ engine # "none"
       /\ status \in {"ok", "exit1"})
      => engine = "disposed"

\* C9: the catalog scripts commit the catalog as a whole: nothing is sent
\* before every item was added, the rows a run has committed are none or all
\* of the catalog, by one commit, and a run that fails building an item has
\* committed nothing and sent no query.
CommitsAfterInsert ==
    Cardinality({ k \in 1..Len(trace) : trace[k] = "commit" /\ Before(k, "insert") > 0 })

C9_CatalogAtomic ==
    script \in CatalogScripts =>
      /\ committed \in {{}, CatalogRows(catalog)}
      /\ Count(trace, "insert") > 0 => (idx > Len(catalog) /\ pending = <<>>)
      /\ committed # {} => CommitsAfterInsert = 1
      /\ CommitsAfterInsert <= 1
      /\ err = <<"KeyError", "catalog field">> =>
           /\ committed = {} /\ db.rows = {}
           /\ Count(trace, "insert") = 0 /\ Count(trace, "select") = 0
           /\ seen = <<>> /\ similarity = <<>>
      /\ status = "exception" => committed = {}
      /\ status \in {"ok", "exit1"} => committed = CatalogRows(catalog)
      /\ (pc = "end" /\ Count(trace, "drop_table") = 1)
           => db.rows \in {{}, CatalogRows(catalog)}

\* The second entry of the catalog lacks a field: the first was added and is
\* not committed.
C9_Witness ==
    /\ script = "sqlalchemy_movies"
    /\ pc = "end"
    /\ err = <<"KeyError", "catalog field">>
    /\ idx = 2
    /\ db.table = "catalog"

\* C10: a toy script that ends normally leaves exactly three committed rows,
\* with the embeddings [1, 2, 3], [-1, 1, 3] and [0, -1, -2].
C10_ThreeRowsCommitted ==
    (script \in ToyScripts /\ pc = "end" /\ status = "ok")
      => /\ Cardinality(db.rows) = 3
         /\ VectorsOf(db.rows) = { Embeddings[k] : k \in 1..Len(Embeddings) }

====
